---- MODULE Spec2Model ----
(***************************************************************************)
(* Model of app.py: the /recommend and /explain-node handlers, the         *)
(* per-client session that hands the profile from one to the other, the    *)
(* prompt compiled for the generation client and the relayed response.     *)
(*                                                                         *)
(* A text is a sequence of pieces.  A piece is one character of user       *)
(* input (" " and "\n" are the whitespace pieces) or one literal of the    *)
(* source, so trimming, joining and interpolation are computed as the      *)
(* code computes them.  Characters of the source literals outside ASCII    *)
(* are written with their ASCII look-alikes.                               *)
(***************************************************************************)
EXTENDS Naturals, Sequences, FiniteSets

VARIABLES session, req

vars == <<session, req>>

\* ------------------------------------------------------------------ bounds

\* At most this many query parameters are present in one request.
MaxParams == 2

\* ------------------------------------------------------------------ texts

Whitespace == {" ", "\n"}

RECURSIVE lstrip(_)
lstrip(s) ==
  IF s # <<>> /\ Head(s) \in Whitespace THEN lstrip(Tail(s)) ELSE s

RECURSIVE rstrip(_)
rstrip(s) ==
  IF s # <<>> /\ s[Len(s)] \in Whitespace
    THEN rstrip(SubSeq(s, 1, Len(s) - 1))
    ELSE s

\* str.strip(): leading and trailing whitespace only
strip(s) == rstrip(lstrip(s))

RECURSIVE join(_, _)
\* sep.join(lines)
join(sep, lines) ==
  IF lines = <<>> THEN <<>>
  ELSE IF Len(lines) = 1 THEN lines[1]
  ELSE lines[1] \o sep \o join(sep, Tail(lines))

\* ------------------------------------------------------------------ requests

Sessions == {"A", "B"}

FieldOrder == <<"name", "age", "experience", "current_certs", "interest">>

Fields == {FieldOrder[i] : i \in 1..Len(FieldOrder)}

RecommendParams == Fields \cup {"timeframe"}

ExplainParams == Fields \cup {"title"}

\* request.args.get(k, "")
Arg(args, k) == IF k \in DOMAIN args THEN args[k] ELSE <<>>

\* the query strings that carry at most max of the parameters params
Requests(params, values, max) ==
  UNION {[ks -> values] : ks \in {S \in SUBSET params : Cardinality(S) <= max}}

NoArgs == [k \in {} |-> <<>>]

\* ------------------------------------------------------------------ session

EmptyProfile == [f \in Fields |-> <<>>]

\* a session cookie without the key "user_profile"
NewSession == [has |-> FALSE, user_profile |-> EmptyProfile]

\* session.get("user_profile", {}).get(f, "") read by a request of client s
Get(store, s, f) ==
  IF store[s].has THEN store[s].user_profile[f] ELSE <<>>

\* a write that keeps the stored value of every field the new profile lacks
PutMerged(store, s, profile) ==
  [store EXCEPT ![s] =
     [has |-> TRUE,
      user_profile |-> [f \in Fields |-> IF profile[f] # <<>> THEN profile[f]
                                                              ELSE Get(store, s, f)]]]

\* a write to one profile that all clients share (a module-level global)
PutShared(store, s, profile) ==
  [t \in Sessions |-> [has |-> TRUE, user_profile |-> profile]]

\* session["user_profile"] = {...} written by a request of client s
Put(store, s, profile) ==
  [store EXCEPT ![s] = [has |-> TRUE, user_profile |-> profile]]

\* ------------------------------------------------------------------ prompts

Label(f) ==
  CASE f = "name" -> "- Name: "
    [] f = "age" -> "- Age: "
    [] f = "experience" -> "- Experience Level: "
    [] f = "current_certs" -> "- Current Certifications: "
    [] f = "interest" -> "- Areas of Interest: "

RECURSIVE ProfileLinesFrom(_, _)
ProfileLinesFrom(profile, i) ==
  IF i > Len(FieldOrder) THEN <<>>
  ELSE (IF profile[FieldOrder[i]] # <<>>
          THEN << <<Label(FieldOrder[i])>> \o profile[FieldOrder[i]] >>
          ELSE <<>>)
       \o ProfileLinesFrom(profile, i + 1)

\* profile_lines: one append per non-empty field, in the order of the ifs
ProfileLines(profile) == ProfileLinesFrom(profile, 1)

ProfileText(profile) == join(<<"\n">>, ProfileLines(profile))

TimeframeLabel == "Desired Roadmap Timeframe: "

\* a template that leaves the timeframe line out when tf is empty
RoadmapPromptOptionalTimeframe(profile_text, tf) ==
  << "\n", "User Profile:", "\n" >> \o profile_text
  \o (IF tf # <<>> THEN << "\n", TimeframeLabel >> \o tf ELSE <<>>)
  \o << "\n" >>

RoadmapPrompt(profile_text, tf) ==
  << "\n",
     "You are a cybersecurity career advisor with a fun and personal touch. Based on the user's profile, generate a personalized certification roadmap and guidance for that perosn say his name.",
     "\n", "\n",
     "**IMPORTANT**: Return a self-contained HTML fragment only.  ",
     "\n",
     "- Wrap each phase in <div class=\"roadmap-phase\">...</div>.  ",
     "\n",
     "- Use <h2>, <h3>, <ul>, <li> for structure.  ",
     "\n",
     "- No external CSS or JS, just the fragment.",
     "\n", "\n",
     "User Profile:", "\n" >>
  \o profile_text
  \o << "\n", TimeframeLabel >> \o tf \o << "\n" >>

ExplainPrompt(title, name, profile_text) ==
  << "Teach the topic '" >> \o title
  \o << "' in a concise, personal, and fun tutorial style for " >>
  \o (IF name # <<>> THEN name ELSE << "the user" >>)
  \o << ".", "\n", "User Profile:", "\n" >>
  \o profile_text
  \o << "\n", "\n",
        "**IMPORTANT**: Return a self-contained HTML fragment only.  ",
        "\n",
        "- Wrap the explanation in appropriate HTML elements (e.g. <div>, <h2>, <p>).",
        "\n",
        "- Do not include any extra text.",
        "\n", "\n",
        "Provide a short, clear explanation on this topic in the context of cybersecurity certifications and training." >>

\* ------------------------------------------------------------------ extraction

\* recommend: every field is the trimmed request parameter
RecommendProfile(args) == [f \in Fields |-> strip(Arg(args, f))]

\* the stored value takes precedence over the request parameter
ExplainFieldStoredFirst(args, store, s, f) ==
  IF Get(store, s, f) # <<>> THEN Get(store, s, f) ELSE strip(Arg(args, f))

\* explain_node: request.args.get(f, "").strip() or session...get(f, "")
ExplainField(args, store, s, f) ==
  IF strip(Arg(args, f)) # <<>> THEN strip(Arg(args, f)) ELSE Get(store, s, f)

ExplainProfile(args, store, s) ==
  [f \in Fields |-> ExplainField(args, store, s, f)]

\* the title tested without trimming
TitleMissingUntrimmed(title) == title = <<>>

\* if not title
TitleMissing(title) == strip(title) = <<>>

\* ------------------------------------------------------------------ generation

\* what client.models.generate_content gives back: a response whose text is
\* a string ("text"), a response whose text is None ("notext"), or a raised
\* exception with its message ("fault")
NoOutcome == [kind |-> "pending", text |-> <<>>]

TextOutcome(t) == [kind |-> "text", text |-> t]

NoTextOutcome == [kind |-> "notext", text |-> <<>>]

FaultOutcome(m) == [kind |-> "fault", text |-> m]

GenTexts == { <<>>, <<" ">>, <<" ", "<h2>", "ok", "</h2>", "\n">> }

FaultMessages == { <<"429 RESOURCE_EXHAUSTED">> }

Outcomes ==
  {TextOutcome(t) : t \in GenTexts} \cup {NoTextOutcome}
    \cup {FaultOutcome(m) : m \in FaultMessages}

\* str(e) of the AttributeError raised by None.strip() inside the try block
NoneStripMessage == << "'NoneType' object has no attribute 'strip'" >>

Raised(out) == out.kind \in {"fault", "notext"}

ErrorText(out) == IF out.kind = "fault" THEN out.text ELSE NoneStripMessage

\* ------------------------------------------------------------------ responses

NoResponse == [status |-> 0, media |-> "", charset |-> "", body |-> <<>>]

HtmlResponse(body, status) ==
  [status |-> status, media |-> "text/html", charset |-> "utf-8", body |-> body]

RoadmapFallback == << "<p>", "No roadmap generated.", "</p>" >>

ExplainFallback == << "<div>", "No explanation found.", "</div>" >>

MissingTitleResponse ==
  [status |-> 400, media |-> "text/plain", charset |-> "utf-8",
   body |-> << "Missing node title" >>]

\* recommend without the "or" fallback
RecommendResponseNoFallback(out) ==
  IF Raised(out)
    THEN HtmlResponse(<< "<p style='color:red;'>Error: " >> \o ErrorText(out)
                        \o << "</p>" >>, 500)
    ELSE HtmlResponse(strip(out.text), 200)

\* recommend, lines 101-105
RecommendResponse(out) ==
  IF Raised(out)
    THEN HtmlResponse(<< "<p style='color:red;'>Error: " >> \o ErrorText(out)
                        \o << "</p>" >>, 500)
    ELSE HtmlResponse(IF strip(out.text) # <<>> THEN strip(out.text)
                                                ELSE RoadmapFallback, 200)

\* explain_node without the except block: the framework's own 500 page
ExplainResponseUncaught(out) ==
  IF Raised(out)
    THEN HtmlResponse(<< "<h1>", "Internal Server Error", "</h1>" >>, 500)
    ELSE HtmlResponse(IF strip(out.text) # <<>> THEN strip(out.text)
                                                ELSE ExplainFallback, 200)

\* explain_node, lines 152-156
ExplainResponse(out) ==
  IF Raised(out)
    THEN [status |-> 500, media |-> "text/html", charset |-> "",
          body |-> << "<p style='color:red;'>", "X Error: " >> \o ErrorText(out)
                     \o << "</p>" >>]
    ELSE HtmlResponse(IF strip(out.text) # <<>> THEN strip(out.text)
                                                ELSE ExplainFallback, 200)

\* ------------------------------------------------------------------ state

\* no request of the client is being handled
Idle ==
  [pc |-> "idle", kind |-> "none", args |-> NoArgs, profile |-> EmptyProfile,
   profile_text |-> <<>>, prompt |-> <<>>, calls |-> 0,
   outcome |-> NoOutcome, response |-> NoResponse]

Init ==
  /\ session = [s \in Sessions |-> NewSession]
  /\ req = [s \in Sessions |-> Idle]

\* recommend up to the generation call: extract, save to the session, compile
RecommendStart(s, args) ==
  /\ req[s].pc = "idle"
  /\ LET profile == RecommendProfile(args)
         text == ProfileText(profile)
     IN /\ session' = Put(session, s, profile)
        /\ req' = [req EXCEPT ![s] =
             [Idle EXCEPT !.pc = "generate", !.kind = "recommend",
                          !.args = args, !.profile = profile,
                          !.profile_text = text,
                          !.prompt = RoadmapPrompt(text, strip(Arg(args, "timeframe")))]]

\* explain_node that also saves the resolved profile into the session
ExplainStartSaving(s, args) ==
  /\ req[s].pc = "idle"
  /\ IF TitleMissing(Arg(args, "title"))
       THEN /\ req' = [req EXCEPT ![s] =
                 [Idle EXCEPT !.pc = "done", !.kind = "explain", !.args = args,
                              !.response = MissingTitleResponse]]
            /\ UNCHANGED session
       ELSE LET profile == ExplainProfile(args, session, s)
                text == ProfileText(profile)
            IN /\ req' = [req EXCEPT ![s] =
                    [Idle EXCEPT !.pc = "generate", !.kind = "explain",
                                 !.args = args, !.profile = profile,
                                 !.profile_text = text,
                                 !.prompt = ExplainPrompt(strip(Arg(args, "title")),
                                                          profile["name"], text)]]
               /\ session' = Put(session, s, profile)

\* explain_node up to the generation call, or its 400 return
ExplainStart(s, args) ==
  /\ req[s].pc = "idle"
  /\ IF TitleMissing(Arg(args, "title"))
       THEN req' = [req EXCEPT ![s] =
              [Idle EXCEPT !.pc = "done", !.kind = "explain", !.args = args,
                           !.response = MissingTitleResponse]]
       ELSE LET profile == ExplainProfile(args, session, s)
                text == ProfileText(profile)
            IN req' = [req EXCEPT ![s] =
                 [Idle EXCEPT !.pc = "generate", !.kind = "explain",
                              !.args = args, !.profile = profile,
                              !.profile_text = text,
                              !.prompt = ExplainPrompt(strip(Arg(args, "title")),
                                                       profile["name"], text)]]
  /\ UNCHANGED session

\* client.models.generate_content(model, contents=prompt) returns or raises
Generate(s, out) ==
  /\ req[s].pc = "generate"
  /\ req' = [req EXCEPT ![s].pc = "relay", ![s].calls = @ + 1,
                        ![s].outcome = out]
  /\ UNCHANGED session

\* a relay that calls the generation client again after a fault
RelayRetry(s) ==
  /\ req[s].pc = "relay"
  /\ IF Raised(req[s].outcome)
       THEN req' = [req EXCEPT ![s].pc = "generate"]
       ELSE req' = [req EXCEPT ![s].pc = "done",
                               ![s].response =
                                 IF req[s].kind = "recommend"
                                   THEN RecommendResponse(req[s].outcome)
                                   ELSE ExplainResponse(req[s].outcome)]
  /\ UNCHANGED session

\* the rest of the try block, or the except block: build the response
Relay(s) ==
  /\ req[s].pc = "relay"
  /\ req' = [req EXCEPT ![s].pc = "done",
                        ![s].response =
                          IF req[s].kind = "recommend"
                            THEN RecommendResponse(req[s].outcome)
                            ELSE ExplainResponse(req[s].outcome)]
  /\ UNCHANGED session

\* the handler has returned: the response leaves, the request context ends
Respond(s) ==
  /\ req[s].pc = "done"
  /\ req' = [req EXCEPT ![s] = Idle]
  /\ UNCHANGED session

\* ------------------------------------------------------------------ inputs

Blank == <<" ">>

RecommendValues == { Blank, <<" ", "a", " ">> }

ExplainValues == { Blank, <<" ", "b">>, <<"c", "\n", "d">> }

RecommendRequests == Requests(RecommendParams, RecommendValues, MaxParams)

ExplainRequests == Requests(ExplainParams, ExplainValues, MaxParams)

\* one client, every request of at most MaxParams parameters
Client == "A"

Next ==
  \/ \E args \in RecommendRequests : RecommendStart(Client, args)
  \/ \E args \in ExplainRequests : ExplainStart(Client, args)
  \/ \E out \in Outcomes : Generate(Client, out)
  \/ Relay(Client)
  \/ Respond(Client)

Spec == Init /\ [][Next]_vars

\* two clients whose requests interleave at the generation call
SharedRecommendRequests ==
  [{"name"} -> RecommendValues] \cup [{"name", "experience"} -> {<<" ", "a", " ">>}]
    \cup {NoArgs}

SharedExplainRequests ==
  {NoArgs} \cup [{"title"} -> {<<"t">>}]
    \cup [{"title", "name"} -> {<<"t">>, <<" ", "b">>}]

NextSessions ==
  \E s \in Sessions :
    \/ \E args \in SharedRecommendRequests : RecommendStart(s, args)
    \/ \E args \in SharedExplainRequests : ExplainStart(s, args)
    \/ \E out \in Outcomes : Generate(s, out)
    \/ Relay(s)
    \/ Respond(s)

SpecSessions == Init /\ [][NextSessions]_vars

\* ------------------------------------------------------------------ properties

\* sub occurs in s as a contiguous run of pieces
Contains(s, sub) ==
  \E i \in 1..(Len(s) + 1 - Len(sub)) : SubSeq(s, i, i + Len(sub) - 1) = sub

Occurrences(s, piece) == Cardinality({i \in 1..Len(s) : s[i] = piece})

RECURSIVE SplitFrom(_, _, _)
SplitFrom(s, i, line) ==
  IF i > Len(s) THEN <<line>>
  ELSE IF s[i] = "\n" THEN <<line>> \o SplitFrom(s, i + 1, <<>>)
  ELSE SplitFrom(s, i + 1, Append(line, s[i]))

\* the lines of a text; the empty text has none
Lines(s) == IF s = <<>> THEN <<>> ELSE SplitFrom(s, 1, <<>>)

Param(s, k) == strip(Arg(req[s].args, k))

Stored(s, f) == IF session[s].has THEN session[s].user_profile[f] ELSE <<>>

\* the request of s got past validation and its prompt is compiled
Compiled(s) ==
  /\ req[s].pc \in {"generate", "relay", "done"}
  /\ req[s].response.status # 400

Answered(s) == req[s].pc = "done"

\* C1: an explain-node request whose title is missing or blank after
\* trimming is answered 400 with the plain-text body, whatever its other
\* parameters and the stored profile are, and the generation client is not
\* invoked for it.
C1_BlankTitleRejected ==
  \A s \in Sessions :
    (req[s].kind = "explain" /\ Param(s, "title") = <<>>) =>
      /\ Answered(s)
      /\ req[s].response.status = 400
      /\ req[s].response.media = "text/plain"
      /\ req[s].response.body = << "Missing node title" >>
      /\ req[s].calls = 0
      /\ req[s].prompt = <<>>

C1_Witness ==
  /\ req[Client].kind = "explain"
  /\ "title" \in DOMAIN req[Client].args
  /\ Arg(req[Client].args, "title") # <<>>
  /\ Param(Client, "title") = <<>>
  /\ \E f \in Fields : Stored(Client, f) # <<>>
  /\ req[Client].response.status = 400

\* C2: in an explain-node request with a non-blank title every profile
\* field is resolved on its own: the trimmed request parameter when it is
\* non-blank, otherwise the value the session stores, otherwise absent; the
\* prompt carries the labelled value of each resolved field and no label of
\* an absent one.
C2_FieldResolution ==
  \A s \in Sessions :
    (req[s].kind = "explain" /\ Param(s, "title") # <<>>) =>
      \A f \in Fields :
        LET value == IF Param(s, f) # <<>> THEN Param(s, f) ELSE Stored(s, f)
        IN /\ req[s].profile[f] = value
           /\ value # <<>> =>
                Contains(req[s].prompt, << "\n", Label(f) >> \o value \o << "\n" >>)
           /\ value = <<>> => ~Contains(req[s].prompt, << Label(f) >>)

C2_Witness ==
  /\ req[Client].kind = "explain"
  /\ Compiled(Client)
  /\ Param(Client, "name") # <<>>
  /\ Stored(Client, "name") # <<>>
  /\ Stored(Client, "name") # Param(Client, "name")
  /\ Param(Client, "experience") = <<>>
  /\ Stored(Client, "experience") # <<>>
  /\ Contains(req[Client].prompt, << Label("experience") >> \o Stored(Client, "experience"))
  /\ ~Contains(req[Client].prompt, << Label("name") >> \o Stored(Client, "name"))

\* C3: on both endpoints a fault raised by the generation call ends the
\* request with a response of status 500 and content type text/html whose
\* body contains the fault's message.
C3_FaultAnswered500 ==
  \A s \in Sessions :
    /\ (req[s].pc = "relay" /\ req[s].outcome.kind = "fault") => ENABLED Relay(s)
    /\ (Answered(s) /\ req[s].outcome.kind = "fault") =>
         /\ req[s].response.status = 500
         /\ req[s].response.media = "text/html"
         /\ Contains(req[s].response.body, req[s].outcome.text)

C3_Witness ==
  /\ Answered(Client)
  /\ req[Client].kind = "explain"
  /\ req[Client].outcome.kind = "fault"
  /\ req[Client].response.status = 500

BlankFallbackIs(s, roadmap, explanation) ==
  (Answered(s) /\ req[s].outcome.kind = "text") =>
    /\ req[s].response.status = 200
    /\ req[s].response.body # <<>>
    /\ IF strip(req[s].outcome.text) = <<>>
         THEN req[s].response.body =
                (IF req[s].kind = "recommend" THEN roadmap ELSE explanation)
         ELSE req[s].response.body = strip(req[s].outcome.text)

StartsRecommend(s) == req[s].pc = "idle" /\ req'[s].kind = "recommend"

\* C5: the stored profile of a session is empty before its first recommend
\* request; every recommend request replaces it, when the request starts and
\* so before the generation call succeeds or fails, by the trimmed
\* parameters of that request (blank or missing: absent, nothing merged);
\* no other step changes it.
C5_LastRecommendWins ==
  /\ \A s \in Sessions : \A f \in Fields : Get(session, s, f) = <<>>
  /\ [][\A s \in Sessions :
          IF StartsRecommend(s)
            THEN /\ session'[s].has
                 /\ \A f \in Fields :
                      session'[s].user_profile[f] = strip(Arg(req'[s].args, f))
            ELSE session'[s] = session[s]]_vars

C5_Witness ==
  /\ Answered(Client)
  /\ req[Client].kind = "recommend"
  /\ req[Client].response.status = 500
  /\ Param(Client, "name") = <<>>
  /\ "name" \in DOMAIN req[Client].args
  /\ Stored(Client, "name") = <<>>
  /\ Param(Client, "age") # <<>>
  /\ Stored(Client, "age") = Param(Client, "age")

\* the prompt a request of s compiles from its own parameters and the
\* profile stored for s
OwnPrompt(r, own) ==
  LET value(f) == IF strip(Arg(r.args, f)) # <<>> THEN strip(Arg(r.args, f))
                  ELSE IF r.kind = "explain" /\ own.has THEN own.user_profile[f]
                  ELSE <<>>
      text == ProfileText([f \in Fields |-> value(f)])
  IN IF r.kind = "recommend"
       THEN RoadmapPrompt(text, strip(Arg(r.args, "timeframe")))
       ELSE ExplainPrompt(strip(Arg(r.args, "title")), value("name"), text)

OwnResponse(r) ==
  IF r.kind = "recommend" THEN RecommendResponse(r.outcome)
                          ELSE ExplainResponse(r.outcome)

\* C6: a step of one session changes neither the stored profile nor the
\* request of another session, and the prompt and the response of a request
\* are functions of its parameters, the profile stored for its own session
\* and the generation result.
C6_SessionsIsolated ==
  [][\A s \in Sessions :
       /\ (req'[s] # req[s] \/ session'[s] # session[s]) =>
            \A t \in Sessions \ {s} : req'[t] = req[t] /\ session'[t] = session[t]
       /\ (req'[s].pc \in {"generate", "relay", "done"}
             /\ req'[s].response.status # 400) =>
            req'[s].prompt = OwnPrompt(req'[s], session'[s])
       /\ (req'[s].pc = "done" /\ req'[s].response.status # 400) =>
            req'[s].response = OwnResponse(req'[s])]_vars

C6_Witness ==
  /\ req["A"].kind = "explain"
  /\ req["A"].pc = "relay"
  /\ Param("A", "name") = <<>>
  /\ Stored("A", "name") # <<>>
  /\ Stored("A", "experience") # <<>>
  /\ req["B"].kind = "recommend"
  /\ req["B"].pc = "relay"
  /\ session["B"].has
  /\ Stored("B", "name") = <<>>
  /\ Contains(req["A"].prompt, << Label("name") >> \o Stored("A", "name"))

\* the lines of a rendered profile text that carry the label of field f
LinesOf(lines, f) == {i \in 1..Len(lines) : lines[i] # <<>> /\ Head(lines[i]) = Label(f)}

\* C7: the rendered profile text has exactly one line per populated field,
\* no line for an absent field, and the lines are in the order name, age,
\* experience, current certifications, areas of interest.
C7_OneLinePerField ==
  \A s \in Sessions :
    Compiled(s) =>
      LET lines == Lines(req[s].profile_text)
          populated == {f \in Fields : req[s].profile[f] # <<>>}
      IN /\ Len(lines) = Cardinality(populated)
         /\ \A f \in populated : Cardinality(LinesOf(lines, f)) = 1
         /\ \A f \in Fields \ populated : LinesOf(lines, f) = {}
         /\ \A i, j \in 1..Len(FieldOrder) :
              (i < j /\ FieldOrder[i] \in populated /\ FieldOrder[j] \in populated) =>
                \A a \in LinesOf(lines, FieldOrder[i]) :
                  \A b \in LinesOf(lines, FieldOrder[j]) : a < b

StepOrder ==
  { <<"idle", "generate">>, <<"idle", "done">>, <<"generate", "relay">>,
    <<"relay", "done">>, <<"done", "idle">> }

\* C8: a request passes once through its steps in order and never goes
\* back: the generation client is invoked exactly once for every request
\* that is not rejected with 400, a fault or a blank result is followed by
\* the response and no second call, and the response is set once.
C8_OneAttempt ==
  [][\A s \in Sessions :
       /\ req'[s] # req[s] => <<req[s].pc, req'[s].pc>> \in StepOrder
       /\ req'[s].calls =
            (IF "idle" \in {req[s].pc, req'[s].pc} THEN 0
             ELSE IF req'[s].pc = "relay" THEN req[s].calls + 1
             ELSE req[s].calls)
       /\ req'[s].pc = "done" =>
            /\ req'[s].response.status \in {200, 400, 500}
            /\ req'[s].calls = (IF req'[s].response.status = 400 THEN 0 ELSE 1)
       /\ req'[s].pc \in {"generate", "relay"} => req'[s].response = NoResponse]_vars

C8_Witness ==
  /\ Answered(Client)
  /\ req[Client].kind = "recommend"
  /\ req[Client].outcome.kind = "fault"
  /\ req[Client].calls = 1
  /\ req[Client].response.status = 500

C10_ExplainReadsOnly ==
  [][\A s \in Sessions :
       ("explain" \in {req[s].kind, req'[s].kind}) => session'[s] = session[s]]_vars

C10_Witness ==
  /\ Answered(Client)
  /\ req[Client].kind = "explain"
  /\ req[Client].response.status = 200
  /\ Param(Client, "age") # <<>>
  /\ Stored(Client, "age") # <<>>
  /\ Stored(Client, "age") # Param(Client, "age")
  /\ req[Client].profile["age"] = Param(Client, "age")

====
